---- MODULE Spec2Model ----
(***************************************************************************)
(* GitPaste: the GitHub asset-upload client (class GitHub) and the plugin  *)
(* glue that calls it (class GitPaste).                                    *)
(*                                                                         *)
(* The repository holds four near-copies of the client and two of the      *)
(* plugin.  The copy under analysis is fixed in the initial state:         *)
(*   client copies  "part_001"    src/unnamed/part_001                     *)
(*                  "github_ts_a" src/lib/github.ts, lines 1-246           *)
(*                  "github_ts_b" src/lib/github.ts, lines 248-514 (axios) *)
(*                  "part_000"    src/unnamed/part_000                     *)
(*   plugin copies  "part_002"    src/unnamed/part_002                     *)
(*                  "main_ts"     src/main.ts                              *)
(*                                                                         *)
(* An upload call is an async function: it runs atomically from one await  *)
(* of a network request to the next.  Each action below is one such        *)
(* segment: the continuation that runs when the awaited response arrives,  *)
(* up to and including the issue of the next request (or the return /      *)
(* throw of upload and the synchronous continuation of the handler that    *)
(* awaited it).                                                            *)
(***************************************************************************)
EXTENDS Integers, Sequences, FiniteSets, TLC

\* Number of upload calls (dropped / created / pasted files, direct calls).
NCalls == 2

Calls == 1..NCalls

ClientCopies == {"part_001", "github_ts_a", "github_ts_b", "part_000"}
PluginCopies == {"part_002", "main_ts"}

\* "none": no plugin is loaded and the client is called directly, by callers that
\* share one client object.
PluginModes == PluginCopies \cup {"none"}

\* JavaScript null and undefined, and the empty string, among integer-coded
\* values (repository ids, links and policy ids are positive integers).
NULL == -2
UNDEFINED == -1
EMPTY == 0

\* constructor: this.repoId = this.repo === "cli/cli" ? 212613049 : null
CLI_REPO_ID == 212613049

\* The id the metadata endpoint reports for the non-default repository of
\* the shared client (any positive number other than CLI_REPO_ID).
OTHER_REPO_ID == CLI_REPO_ID + 1

VARIABLES
    copy,        \* which client copy is linked in
    plugin,      \* which plugin copy is loaded
    settings,    \* GitPaste.settings
    repo,        \* GitHub.repo of the shared client
    repoMeta,    \* data.id of the metadata endpoint's JSON for the shared client's repo
    repoId,      \* GitHub.repoId, per client object (0 = the shared client, c = the client made for call c)
    origin,      \* who made call c: "none", "api", "drop", "create", "paste"
    pc,          \* where call c is: the await it is suspended at, or how it ended
    policy,      \* upload's local variable policy (a policy id; NULL before it is set)
    reqs,        \* the network requests call c has issued, in order
    resps,       \* the responses call c has received, in order (resps[c][i] answers reqs[c][i])
    awsLink,     \* upload's local variable awsLink (NULL before it is set)
    result,      \* what upload returned or threw for call c
    note,        \* the active note: a sequence of lines, each the set of image references on it
    cursor,      \* the line the editor cursor is on
    vault,       \* image files present in the vault
    trashed,     \* image files moved to the trash
    file,        \* upload's arguments name, size, file: [name, type, bytes]
    form,        \* policy.form: the entries [key, value] in the order Object.entries gives
    at,          \* where the request-building code of upload is: "args", "policy", "body"
    formData,    \* the form body of the policy request
    boundary,    \* the random part of the boundary string
    body,        \* the multipart body
    notices,     \* the notices displayed (new Notice), each with the call it is about
    console,     \* what was written to the console (console.log / warn / error)
    hpc,         \* where the handler of call c is once upload has ended
    logFile,     \* the log note: whether it exists, and its entries
    logLocal     \* logImageURL's local variable currentContent

\* What one upload call builds its requests from.
payloadVars == <<file, form, at, formData, boundary, body>>

\* The log note and the handlers' reads of it.
logVars == <<logFile, logLocal>>

vars == <<copy, plugin, settings, repo, repoMeta, repoId, origin, pc, policy, reqs,
          resps, awsLink, result, note, cursor, vault, trashed, payloadVars,
          notices, console, hpc, logVars>>

----------------------------------------------------------------------------
(* Values *)

\* JavaScript truthiness of a number | null | undefined: if (this.repoId), !this.repoId
Truthy(x) == x # NULL /\ x # UNDEFINED /\ x # 0

\* response.headers.location || ""
OrEmpty(x) == IF x = UNDEFINED \/ x = NULL \/ x = EMPTY THEN EMPTY ELSE x

\* The server issues a distinct policy for every policy request it accepts, and the
\* storage endpoint a distinct Location for every object stored: the n-th policy
\* (location) given to call c.
PolicyIssued(c, n) == 10 * c + n
LocationIssued(c, n) == 100 + 10 * c + n

\* The fields of policy p (interface UploadPolicy).  Every field is per-policy, so a
\* field is identified by the policy it belongs to.
Href(p) == 1000 + p

\* The client object call c runs on: the shared client 0 for a direct call, a client
\* of its own (const gh = new GitHub(...)) for a call made by a plugin handler.
gh(c) == IF origin[c] = "api" THEN 0 ELSE c

NoResult == [kind |-> "none", githubLink |-> NULL, awsLink |-> NULL,
             msgs |-> <<>>, status |-> 0]

\* return { githubLink: policy.asset.href, awsLink }
Links(g, a) == [kind |-> "links", githubLink |-> g, awsLink |-> a,
                msgs |-> <<>>, status |-> 0]

\* new Error(`<msgs[1]>: <msgs[2]>: ...`); status is the status code the message
\* text carries (0 when it carries none).
Err(msgs, status) == [kind |-> "error", githubLink |-> NULL, awsLink |-> NULL,
                      msgs |-> msgs, status |-> status]

\* A response: status 0 is a transport failure (no HTTP response at all); data is
\* the part of the response the client reads (json.id, the policy, the Location).
Resp(status, data) == [status |-> status, data |-> data]

----------------------------------------------------------------------------
(* The HTTP layer *)

\* obsidian's requestUrl rejects on a transport failure and, unless the request
\* says throw: false, on every status of 400 and above.
requestUrlThrows(r, throwOpt) == r.status = 0 \/ (throwOpt /\ r.status >= 400)

\* axios rejects on a transport failure and on every status outside 200..299.
axiosThrows(r) == r.status = 0 \/ ~(r.status >= 200 /\ r.status < 300)

\* The text of the error the HTTP layer rejects with.
httpErrorText(r) == IF r.status = 0 THEN "net::ERR_FAILED"
                    ELSE IF copy = "github_ts_b" THEN "Request failed with status code"
                    ELSE "Request failed, status"

\* Whether the awaited request of the given kind rejects on response r.
getRepoIdThrows(r) == IF copy = "github_ts_b" THEN axiosThrows(r)
                      ELSE requestUrlThrows(r, TRUE)

\* Mutant: the rejection of the policy request is not noticed.
getPolicyThrows_Never(r) == FALSE

getPolicyThrows(r) == IF copy = "github_ts_b" THEN axiosThrows(r)
                      ELSE requestUrlThrows(r, TRUE)

uploadPostThrows(r) == IF copy = "github_ts_b" THEN axiosThrows(r)
                       ELSE requestUrlThrows(r, TRUE)

\* part_001 passes throw: false to the completion PUT; the other copies do not.
markUploadCompleteThrows(r) ==
    IF copy = "github_ts_b" THEN axiosThrows(r)
    ELSE IF copy = "part_001" THEN requestUrlThrows(r, FALSE)
    ELSE requestUrlThrows(r, TRUE)

\* if (response.status != 201) throw ...   (part_001, github_ts_a only)
policyStatusOk(r) == IF copy \in {"part_001", "github_ts_a"} THEN r.status = 201
                     ELSE TRUE

\* if (![201, 204].includes(response.status)) throw ...   (part_001, github_ts_a only)
uploadStatusOk(r) == IF copy \in {"part_001", "github_ts_a"} THEN r.status \in {201, 204}
                     ELSE TRUE

\* Whether the request of the given kind carries the session cookie.
sendsCookie(kind) ==
    CASE kind = "repo"     -> copy = "github_ts_b"
      [] kind = "policy"   -> TRUE
      [] kind = "upload"   -> copy \in {"github_ts_b", "part_000"}
      [] kind = "complete" -> TRUE

\* One issued request.  policy is the policy whose upload_url / form /
\* asset_upload_url / asset_upload_authenticity_token the request uses (NULL for the
\* two requests that use none); repository_id is the form field of the policy request.
Req(kind, p, rid) == [kind |-> kind, policy |-> p, repository_id |-> rid,
                      cookie |-> sendsCookie(kind)]

\* No request: what an error that is not the HTTP library's own carries.
NoRequest == [kind |-> "none", policy |-> NULL, repository_id |-> NULL, cookie |-> FALSE]

\* console.log(value) / console.warn(..., value) / console.error(..., value) by the
\* named method, for call c.  request: the request configuration (url, headers, body)
\* the logged object holds; an AxiosError holds the one of the request that failed.
Logged(c, by, value, request) ==
    [call |-> c, by |-> by, value |-> value, request |-> request]

\* new Notice(`GitPaste: ${text}`), about the file of call c.
Notice(c, text) == [call |-> c, text |-> text]

\* The error object the HTTP layer rejects with, as far as the request it holds:
\* axios rejects with an AxiosError whose config is the request; requestUrl with an
\* Error that holds the status and the response headers.
httpErrorRequest(c) == IF copy = "github_ts_b" THEN reqs[c][Len(reqs[c])] ELSE NoRequest

----------------------------------------------------------------------------
(* What the servers may answer *)

\* GET https://api.github.com/repos/${this.repo}
RepoResponses == {Resp(200, repoMeta), Resp(404, UNDEFINED), Resp(0, UNDEFINED)}

\* How many requests of the given kind call c has issued.
NumReqs(c, kind) == Cardinality({i \in DOMAIN reqs[c] : reqs[c][i].kind = kind})

PolicyResponses(c) ==
    LET p == PolicyIssued(c, NumReqs(c, "policy"))
    IN  {Resp(201, p), Resp(200, p), Resp(401, UNDEFINED), Resp(0, UNDEFINED)}

UploadResponses(c) ==
    LET l == LocationIssued(c, NumReqs(c, "upload"))
    IN  {Resp(201, l), Resp(204, UNDEFINED), Resp(200, l),
         Resp(403, UNDEFINED), Resp(0, UNDEFINED)}

CompleteResponses == {Resp(200, UNDEFINED), Resp(404, UNDEFINED), Resp(0, UNDEFINED)}

----------------------------------------------------------------------------
(* The note and the editor *)

\* The note is a sequence of lines; a line is the set of image references on it
\* (the other text of a line, and the order of the references on it, are left out:
\* no handler reads them).  The cursor is the number of the line it is on.

\* ![[<name of file f>]]
Local(f) == [t |-> "local", f |-> f, link |-> EMPTY]

\* ![<name of file f>](<link>)
Remote(f, link) == [t |-> "remote", f |-> f, link |-> link]

\* localMarkdownRegex.test(lineContent)
HasLocal(line, f) == Local(f) \in line

\* lineContent.replace(localMarkdownRegex, `![${file.name}](${filePath})`)
ReplaceLocal(line, f, tok) == (line \ {Local(f)}) \cup {tok}

\* editor.replaceRange(text, cursorPosition) / editor.replaceSelection(text)
InsertText(line, tok) == line \cup {tok}

\* The host's own handling of a pasted image: the reference ![[name]] is typed at
\* the cursor.
HostInsertsLocal(f) ==
    /\ note' = [note EXCEPT ![cursor] = InsertText(@, Local(f))]
    /\ UNCHANGED cursor

----------------------------------------------------------------------------
(* The plugin: what runs after upload has returned or thrown *)

\* part_002, handleImagePaste lines 89-118: rewrite the note.
\* view: whether getActiveViewOfType(MarkdownView) finds a view.
rewriteNote(c, githubLink, view) ==
    IF ~view THEN UNCHANGED <<note, cursor>>
    ELSE LET lineContent == note[cursor]
         IN  /\ note' = [note EXCEPT ![cursor] =
                            IF HasLocal(lineContent, c)
                            THEN ReplaceLocal(lineContent, c, Remote(c, githubLink))
                            ELSE InsertText(lineContent, Remote(c, githubLink))]
             /\ UNCHANGED cursor

\* main.ts, handleImagePaste lines 84-95: editor.replaceSelection(imageMarkdown)
replaceSelection(c, githubLink, view) ==
    IF ~view THEN UNCHANGED <<note, cursor>>
    ELSE /\ note' = [note EXCEPT ![cursor] = InsertText(@, Remote(c, githubLink))]
         /\ UNCHANGED cursor

\* GitPaste.showNotice (part_002 lines 147-151)
showNotice(c, text) == IF settings.showNotices THEN {Notice(c, text)} ELSE {}

\* The notice of the rewrite: this.showNotice("Replaced ...") / ("Inserted ...")
rewriteNotice(c, view) ==
    IF ~view THEN {}
    ELSE IF HasLocal(note[cursor], c)
    THEN showNotice(c, "Replaced local image link with GitHub URL.")
    ELSE showNotice(c, "Inserted GitHub image link.")

\* part_002, vault create handler lines 66-71: what follows
\* await this.handleImagePaste(uploadedFile), however that call ended.
trashAfterPaste(c) ==
    IF origin[c] = "create" /\ settings.deleteLocalImage
    THEN /\ vault' = vault \ {c}
         /\ trashed' = trashed \cup {c}
    ELSE UNCHANGED <<vault, trashed>>

\* this.showNotice("Local Image is trashed")
trashNotice(c) ==
    IF origin[c] = "create" /\ settings.deleteLocalImage
    THEN showNotice(c, "Local Image is trashed")
    ELSE {}

\* handleImagePaste of part_002 has ended for call c, having shown the notices
\* shown; the handler that awaited it goes on.
handlerEnd(c, shown) ==
    /\ trashAfterPaste(c)
    /\ notices' = notices \cup shown \cup trashNotice(c)

\* part_002, handleImagePaste lines 126-129: an error thrown inside the try.
\*   console.error("Error uploading image:", error); this.showNotice(...)
handlerCatch(c, logged, shown) ==
    /\ console' = console \cup logged
                  \cup {Logged(c, "GitPaste.handleImagePaste", "error", NoRequest)}
    /\ hpc' = [hpc EXCEPT ![c] = "caught"]
    /\ handlerEnd(c, shown \cup showNotice(c, "Please check the console for details."))

\* The continuation of the handler that awaited gh.upload(...) for call c, when
\* upload ends with res, having logged and shown what the client did on the way.
\*   part_002: try { rewrite; log } catch { console.error; showNotice }, then the
\*             create handler's trash step;
\*   main.ts:  no try/catch: a rejection leaves handleImagePaste at once.
handlerResume(c, res, view, logged, shown) ==
    IF origin[c] = "api"
    THEN /\ console' = console \cup logged
         /\ notices' = notices \cup shown
         /\ UNCHANGED <<note, cursor, vault, trashed, hpc>>
    ELSE IF plugin = "part_002"
    THEN IF res.kind = "links"
         THEN /\ rewriteNote(c, res.githubLink, view)
              /\ console' = console \cup logged
              /\ IF settings.enableLogging
                 THEN \* logImageURL, up to its first await
                      /\ hpc' = [hpc EXCEPT ![c] = IF logFile.exists THEN "read"
                                                   ELSE "create"]
                      /\ notices' = notices \cup shown \cup rewriteNotice(c, view)
                      /\ UNCHANGED <<vault, trashed>>
                 ELSE /\ hpc' = [hpc EXCEPT ![c] = "done"]
                      /\ handlerEnd(c, shown \cup rewriteNotice(c, view))
         ELSE /\ UNCHANGED <<note, cursor>>
              /\ handlerCatch(c, logged, shown)
    ELSE /\ IF res.kind = "links"
            THEN \* console.log(awsLink, githubLink)
                 /\ replaceSelection(c, res.githubLink, view)
                 /\ console' = console \cup logged
                               \cup {Logged(c, "GitPaste.handleImagePaste", "links", NoRequest)}
                 /\ hpc' = [hpc EXCEPT ![c] = "done"]
            ELSE /\ UNCHANGED <<note, cursor>>
                 /\ console' = console \cup logged
                 /\ hpc' = [hpc EXCEPT ![c] = "rejected"]
         /\ notices' = notices \cup shown
         /\ UNCHANGED <<vault, trashed>>

\* upload returns or throws res to its caller; logged and shown are what the client
\* wrote to the console and displayed before it did.
Finish(c, res, logged, shown) ==
    /\ result' = [result EXCEPT ![c] = res]
    /\ pc' = [pc EXCEPT ![c] = IF res.kind = "links" THEN "returned" ELSE "threw"]
    /\ \E view \in BOOLEAN : handlerResume(c, res, view, logged, shown)

\* logImageURL (part_002 lines 132-145), awaited inside handleImagePaste's try.

\* `- ${fileName}: ${githubLink}`
logEntry(c) == [f |-> c, link |-> result[c].githubLink]

\* file = await this.app.vault.create(logFilePath, ""): rejects when a file of that
\* path exists by now.
logCreate(c) ==
    /\ hpc[c] = "create"
    /\ IF logFile.exists
       THEN /\ handlerCatch(c, {}, {})
            /\ UNCHANGED logVars
       ELSE /\ logFile' = [exists |-> TRUE, entries |-> {}]
            /\ hpc' = [hpc EXCEPT ![c] = "read"]
            /\ UNCHANGED <<logLocal, console, notices, vault, trashed>>
    /\ UNCHANGED <<copy, plugin, settings, repo, repoMeta, repoId, origin, pc, policy, reqs,
                   resps, awsLink, result, note, cursor>>
    /\ UNCHANGED payloadVars

\* const currentContent = await this.app.vault.read(file)
logRead(c) ==
    /\ hpc[c] = "read"
    /\ logLocal' = [logLocal EXCEPT ![c] = logFile.entries]
    /\ hpc' = [hpc EXCEPT ![c] = "modify"]
    /\ UNCHANGED <<copy, plugin, settings, repo, repoMeta, repoId, origin, pc, policy, reqs,
                   resps, awsLink, result, note, cursor, vault, trashed>>
    /\ UNCHANGED <<payloadVars, notices, console, logFile>>

\* await this.app.vault.modify(file, `${currentContent}\n- ${fileName}: ${githubLink}`)
\* and the end of handleImagePaste.
logModify(c) ==
    /\ hpc[c] = "modify"
    /\ logFile' = [exists |-> TRUE, entries |-> logLocal[c] \cup {logEntry(c)}]
    /\ hpc' = [hpc EXCEPT ![c] = "done"]
    /\ handlerEnd(c, {})
    /\ UNCHANGED <<copy, plugin, settings, repo, repoMeta, repoId, origin, pc, policy, reqs,
                   resps, awsLink, result, note, cursor>>
    /\ UNCHANGED <<payloadVars, console, logLocal>>

----------------------------------------------------------------------------
(* The client: class GitHub *)

\* The policy most recently stored by any call (the highest call that holds one).
LatestPolicy ==
    policy[CHOOSE d \in Calls :
               /\ policy[d] # NULL
               /\ \A e \in Calls : policy[e] # NULL => e <= d]

\* Mutant: the policy is kept in a field of the client, where a later call
\* overwrites it.
policyUsed_Shared(c) == LatestPolicy

\* upload's local variable policy, as the completion PUT reads it.
policyUsed(c) == policy[c]

\* Mutant: awsLink is kept in a field of the client, where a later call overwrites it.
uploadResult_SharedLocation(c) ==
    Links(Href(policy[c]),
          awsLink[CHOOSE d \in Calls :
                      /\ awsLink[d] # NULL
                      /\ \A e \in Calls : awsLink[e] # NULL => e <= d])

\* Mutant: the two links are returned in each other's place.
uploadResult_Swapped(c) == Links(awsLink[c], Href(policy[c]))

\* return { githubLink: policy.asset.href, awsLink }
uploadResult(c) == Links(Href(policy[c]), awsLink[c])

\* constructor: this.repoId = this.repo === "cli/cli" ? 212613049 : null
constructorRepoId(rp) == IF rp = "cli/cli" THEN CLI_REPO_ID ELSE NULL

\* Mutant: getRepoId without its first line, if (this.repoId) return this.repoId.
StartReq_AlwaysResolve(rid) == Req("repo", NULL, NULL)

\* upload(name, size, file), up to its first await: getPolicy reads this.repoId (rid)
\* and either issues the policy POST at once or first awaits getRepoId's GET.
StartReq(rid) == IF Truthy(rid) THEN Req("policy", NULL, rid) ELSE Req("repo", NULL, NULL)
\* Mutant: the call goes back to the resolution step whatever it has sent, so that
\* the policy request is sent a second time.
StartPc_Again(rid) == "getRepoId"

StartPc(rid) == IF Truthy(rid) THEN "getPolicy" ELSE "getRepoId"

\* What getPolicy writes to the console when its request is answered with r:
\*   lib/github.ts 375 (axios): console.log(error) in the catch;
\*   part_001 90-93: console.error(response.text) on a status other than 201.
getPolicyLogged(c, r) ==
    IF getPolicyThrows(r)
    THEN IF copy = "github_ts_b"
         THEN {Logged(c, "GitHub.getPolicy", "error", httpErrorRequest(c))}
         ELSE {}
    ELSE IF ~policyStatusOk(r) /\ copy = "part_001"
    THEN {Logged(c, "GitHub.getPolicy", "response.text", NoRequest)}
    ELSE {}

\* lib/github.ts 131-134: new Notice("GitPaste: Your Github session is expired. Add
\* again") on a status other than 201.
getPolicyShown(c, r) ==
    IF ~getPolicyThrows(r) /\ ~policyStatusOk(r) /\ copy = "github_ts_a"
    THEN {Notice(c, "Your Github session is expired. Add again")}
    ELSE {}

\* What upload writes to the console when the multipart POST is answered with r:
\*   lib/github.ts 199-202: console.warn('Upload failed response:', response);
\*   lib/github.ts 213, 481, part_000 235: console.log(error) in the catch.
uploadPostLogged(c, r) ==
    IF uploadPostThrows(r)
    THEN IF copy = "part_001" THEN {}
         ELSE {Logged(c, "GitHub.upload", "error", httpErrorRequest(c))}
    ELSE IF ~uploadStatusOk(r) /\ copy = "github_ts_a"
    THEN {Logged(c, "GitHub.upload", "response", NoRequest),
          Logged(c, "GitHub.upload", "error", NoRequest)}
    ELSE {}

\* upload's catch when markUploadComplete threw its new Error(...): console.log(error)
markUploadCompleteLogged(c, r) ==
    IF markUploadCompleteThrows(r) /\ copy # "part_001"
    THEN {Logged(c, "GitHub.upload", "error", NoRequest)}
    ELSE {}

\* The next call to start is the lowest unused call number.
NextCall(c) == origin[c] = "none" /\ \A d \in 1..(c - 1) : origin[d] # "none"

\* A direct call gh.upload(...) on the shared client.
upload(c) ==
    /\ plugin = "none"
    /\ NextCall(c)
    /\ origin' = [origin EXCEPT ![c] = "api"]
    /\ reqs' = [reqs EXCEPT ![c] = <<StartReq(repoId[0])>>]
    /\ pc' = [pc EXCEPT ![c] = StartPc(repoId[0])]
    /\ UNCHANGED <<copy, plugin, settings, repo, repoMeta, repoId, policy, resps, awsLink,
                   result, note, cursor, vault, trashed>>
    /\ UNCHANGED <<payloadVars, notices, console, hpc, logVars>>

\* getRepoId resumes with the answer to its GET, then getPolicy goes on.
getRepoId(c, r) ==
    /\ pc[c] = "getRepoId"
    /\ r \in RepoResponses
    /\ resps' = [resps EXCEPT ![c] = Append(@, r)]
    /\ IF getRepoIdThrows(r)
       THEN \* catch (error) { throw new Error(`Failed to get repo ID: ${error}`) }
            /\ Finish(c, Err(<<"Failed to get repo ID", httpErrorText(r)>>, r.status), {}, {})
            /\ UNCHANGED <<repoId, reqs>>
       ELSE \* this.repoId = data.id; return this.repoId;
            /\ repoId' = [repoId EXCEPT ![gh(c)] = r.data]
            /\ IF Truthy(r.data)
               THEN /\ reqs' = [reqs EXCEPT ![c] = Append(@, Req("policy", NULL, r.data))]
                    /\ pc' = [pc EXCEPT ![c] = "getPolicy"]
                    /\ UNCHANGED <<result, note, cursor, vault, trashed, notices, console, hpc>>
               ELSE \* this.repoId!.toString() on null / undefined
                    /\ Finish(c, Err(<<"TypeError: Cannot read properties of undefined">>, 0),
                              {}, {})
                    /\ UNCHANGED reqs
    /\ UNCHANGED <<copy, plugin, settings, repo, repoMeta, origin, policy, awsLink>>
    /\ UNCHANGED <<payloadVars, logVars>>

\* getPolicy resumes with the answer to the policy POST; on success upload builds the
\* multipart body from policy.form and the file and POSTs it to policy.upload_url.
getPolicy(c, r) ==
    /\ pc[c] = "getPolicy"
    /\ r \in PolicyResponses(c)
    /\ resps' = [resps EXCEPT ![c] = Append(@, r)]
    /\ IF getPolicyThrows(r)
       THEN /\ Finish(c, Err(<<"Failed to get upload policy", httpErrorText(r)>>, r.status),
                      getPolicyLogged(c, r), getPolicyShown(c, r))
            /\ UNCHANGED <<policy, reqs>>
       ELSE IF ~policyStatusOk(r)
       THEN /\ Finish(c, IF copy = "part_001"
                         THEN Err(<<"Failed to get upload policy",
                                    "Your Github session is expired. Add again">>, 0)
                         ELSE Err(<<"Failed to get upload policy",
                                    "Failed to get upload policy", "response.text">>, 0),
                      getPolicyLogged(c, r), getPolicyShown(c, r))
            /\ UNCHANGED <<policy, reqs>>
       ELSE /\ policy' = [policy EXCEPT ![c] = r.data]
            /\ reqs' = [reqs EXCEPT ![c] = Append(@, Req("upload", policy'[c], NULL))]
            /\ pc' = [pc EXCEPT ![c] = "upload"]
            /\ UNCHANGED <<result, note, cursor, vault, trashed, notices, console, hpc>>
    /\ UNCHANGED <<copy, plugin, settings, repo, repoMeta, repoId, origin, awsLink>>
    /\ UNCHANGED <<payloadVars, logVars>>

\* upload resumes with the answer to the multipart POST, then calls markUploadComplete.
uploadPost(c, r) ==
    /\ pc[c] = "upload"
    /\ r \in UploadResponses(c)
    /\ resps' = [resps EXCEPT ![c] = Append(@, r)]
    /\ IF uploadPostThrows(r)
       THEN /\ Finish(c, Err(<<"Failed to upload file", httpErrorText(r)>>, r.status),
                      uploadPostLogged(c, r), {})
            /\ UNCHANGED <<awsLink, reqs>>
       ELSE IF ~uploadStatusOk(r)
       THEN /\ Finish(c, Err(<<"Failed to upload file", "Upload failed with status">>,
                             r.status),
                      uploadPostLogged(c, r), {})
            /\ UNCHANGED <<awsLink, reqs>>
       ELSE /\ awsLink' = [awsLink EXCEPT ![c] = OrEmpty(r.data)]
            /\ reqs' = [reqs EXCEPT ![c] = Append(@, Req("complete", policyUsed(c), NULL))]
            /\ pc' = [pc EXCEPT ![c] = "markUploadComplete"]
            /\ UNCHANGED <<result, note, cursor, vault, trashed, notices, console, hpc>>
    /\ UNCHANGED <<copy, plugin, settings, repo, repoMeta, repoId, origin, policy>>
    /\ UNCHANGED <<payloadVars, logVars>>

\* markUploadComplete resumes with the answer to the completion PUT; upload returns.
markUploadComplete(c, r) ==
    /\ pc[c] = "markUploadComplete"
    /\ r \in CompleteResponses
    /\ resps' = [resps EXCEPT ![c] = Append(@, r)]
    /\ IF markUploadCompleteThrows(r)
       THEN Finish(c, Err(<<"Failed to upload file", "Failed to mark upload as complete",
                            httpErrorText(r)>>, r.status),
                   markUploadCompleteLogged(c, r), {})
       ELSE Finish(c, uploadResult(c), {}, {})
    /\ UNCHANGED <<copy, plugin, settings, repo, repoMeta, repoId, origin, policy, reqs, awsLink>>
    /\ UNCHANGED <<payloadVars, logVars>>

----------------------------------------------------------------------------
(* The plugin: class GitPaste, the event handlers *)

\* handleImagePaste(file) for every file of one event, up to the first await.
\*   S: the files of the event; I: those that pass the handler's image test.
\*   part_002: an empty session shows a notice and returns; main.ts shows the notice
\*   and goes on.  const gh = new GitHub(session) uses the default repository.
handlersStart(S, I, org) ==
    LET U == IF plugin = "part_002" /\ settings.githubSession = "" THEN {} ELSE I
        rid == constructorRepoId("cli/cli")
    IN  /\ origin' = [c \in Calls |-> IF c \in S THEN org ELSE origin[c]]
        /\ repoId' = [k \in 0..NCalls |-> IF k \in U THEN rid ELSE repoId[k]]
        /\ reqs' = [c \in Calls |-> IF c \in U THEN <<StartReq(rid)>> ELSE reqs[c]]
        /\ pc' = [c \in Calls |->
                    IF c \in U THEN StartPc(rid)
                    ELSE IF c \in I THEN "nosession"
                    ELSE IF c \in S THEN "skipped"
                    ELSE pc[c]]
        /\ hpc' = [c \in Calls |-> IF c \in I \ U THEN "done" ELSE hpc[c]]

\* The notice of handleImagePaste for a file it is given while the session is empty:
\* this.showNotice(...) in part_002, new Notice(...) in main.ts.
noSessionNotice(c) ==
    IF settings.githubSession # "" THEN {}
    ELSE IF plugin = "part_002"
    THEN showNotice(c, "Please Add GitHub Session to use this.")
    ELSE {Notice(c, "Please Add Github Session to use this.")}

\* The files of one event: the next n unused call numbers.
NextCalls(S) == /\ S # {}
                /\ \E c \in Calls, n \in 1..NCalls :
                      /\ NextCall(c)
                      /\ S = {d \in Calls : c <= d /\ d < c + n}

\* workspace.on("editor-drop"): every dropped file whose type starts with image/.
editorDrop(S, I) ==
    /\ plugin \in PluginCopies
    /\ NextCalls(S)
    /\ I \subseteq S
    /\ handlersStart(S, I, "drop")
    /\ notices' = notices \cup UNION {noSessionNotice(c) : c \in I}
    /\ UNCHANGED <<copy, plugin, settings, repo, repoMeta, policy, resps, awsLink, result,
                   note, cursor, vault, trashed>>
    /\ UNCHANGED <<payloadVars, console, logVars>>

\* workspace.on("editor-paste") (main.ts only): the clipboard's image item.  The
\* host handles the paste too: it stores the image and types ![[name]].
editorPaste(c) ==
    /\ plugin = "main_ts"
    /\ NextCall(c)
    /\ handlersStart({c}, {c}, "paste")
    /\ HostInsertsLocal(c)
    /\ vault' = vault \cup {c}
    /\ notices' = notices \cup noSessionNotice(c)
    /\ UNCHANGED <<copy, plugin, settings, repo, repoMeta, policy, resps, awsLink, result,
                   trashed>>
    /\ UNCHANGED <<payloadVars, console, logVars>>

\* vault.on("create") (part_002 only): a file appears in the vault, typed into the
\* note by a paste (pasted) or copied in from outside.  img: the extension matches
\* /png|jpg|jpeg|gif|bmp/i.  With no session handleImagePaste returns at once and
\* the handler goes on to its trash step.
vaultCreate(c, img, pasted) ==
    /\ plugin = "part_002"
    /\ NextCall(c)
    /\ handlersStart({c}, IF img THEN {c} ELSE {}, "create")
    /\ IF pasted THEN HostInsertsLocal(c) ELSE UNCHANGED <<note, cursor>>
    /\ IF img /\ settings.githubSession = "" /\ settings.deleteLocalImage
       THEN /\ trashed' = trashed \cup {c}
            /\ notices' = notices \cup noSessionNotice(c)
                           \cup showNotice(c, "Local Image is trashed")
            /\ UNCHANGED vault
       ELSE /\ vault' = IF img THEN vault \cup {c} ELSE vault
            /\ notices' = notices \cup (IF img THEN noSessionNotice(c) ELSE {})
            /\ UNCHANGED trashed
    /\ UNCHANGED <<copy, plugin, settings, repo, repoMeta, policy, resps, awsLink, result>>
    /\ UNCHANGED <<payloadVars, console, logVars>>

\* The user moves the cursor to line l.
MoveCursor(l) ==
    /\ l \in DOMAIN note
    /\ cursor # l
    /\ cursor' = l
    /\ UNCHANGED <<copy, plugin, settings, repo, repoMeta, repoId, origin, pc, policy, reqs,
                   resps, awsLink, result, note, vault, trashed>>
    /\ UNCHANGED <<payloadVars, notices, console, hpc, logVars>>

----------------------------------------------------------------------------
(* Building the requests: content type, policy form, multipart body *)

\* A string is modelled as the sequence of its pieces, so that a piece can be
\* searched for: a file name as its dots and the text between them, a field value
\* and the file content as bytes and byte runs, a body as the pieces it is
\* concatenated from.

CRLF == "\r\n"

RECURSIVE Join(_)
\* The string a sequence of pieces spells.
Join(s) == IF s = <<>> THEN "" ELSE Head(s) \o Join(Tail(s))

RECURSIVE Flatten(_)
\* parts.push(...) for every part, then the concatenation of all parts.
Flatten(ss) == IF ss = <<>> THEN <<>> ELSE Head(ss) \o Flatten(Tail(ss))

\* Mutant: the extension is everything after the first dot.
extname_FirstDot(name) ==
    LET dots == {i \in DOMAIN name : name[i] = "."}
    IN  IF dots = {} THEN <<>>
        ELSE SubSeq(name, CHOOSE i \in dots : \A j \in dots : i <= j, Len(name))

\* path.extname(name): from the last dot to the end; "" when there is no dot, when
\* the last dot is the first character, and for "..".
extname(name) ==
    LET dots == {i \in DOMAIN name : name[i] = "."}
        startDot == CHOOSE i \in dots : \A j \in dots : j <= i
    IN  IF dots = {} THEN <<>>
        ELSE IF startDot = 1 THEN <<>>
        ELSE IF name = <<".", ".">> THEN <<>>
        ELSE SubSeq(name, startDot, Len(name))

\* String.prototype.toLowerCase, on the extensions that occur.
toLowerCase(str) == IF str = "PNG" THEN "png" ELSE str

\* mime-types: the extension -> type table (the entries that occur).
mimeTypes == [png |-> "image/png", jpg |-> "image/jpeg"]

\* mime.lookup(path): extname("x." + path).toLowerCase().substr(1), looked up in the
\* table; false ("" here) for an empty path, an empty extension and an unknown one.
lookup(path) ==
    IF path = <<>> THEN ""
    ELSE LET e == extname(<<"x", ".">> \o path)
             extension == IF e = <<>> THEN "" ELSE toLowerCase(Join(Tail(e)))
         IN  IF extension \in DOMAIN mimeTypes THEN mimeTypes[extension] ELSE ""

\* const contentType = mime.lookup(ext) || "application/octet-stream"
contentTypeOf(name) ==
    LET ext == extname(name)
        t == lookup(ext)
    IN  IF t = "" THEN "application/octet-stream" ELSE t

\* getPolicy: the URLSearchParams of the policy request.
policyFormData(rid, name, size, contentType) ==
    [repository_id |-> rid, name |-> Join(name), size |-> size,
     content_type |-> contentType]

NoFormData == [repository_id |-> NULL, name |-> "", size |-> 0, content_type |-> ""]

\* Math.random().toString(36).substring(2)
Randoms == {"k3", "z9"}

\* `Content-Disposition: form-data; name="${key}"`
fieldDisposition(key) == "Content-Disposition: form-data; name=\"" \o key \o "\""

\* `Content-Disposition: form-data; name="file"; filename="${name}"`
fileDisposition(name) ==
    "Content-Disposition: form-data; name=\"file\"; filename=\"" \o Join(name) \o "\""

\* `Content-Type: ${contentType}`
typeHeader(contentType) == "Content-Type: " \o contentType

\* Mutant: the line break that ends a field value is left out.
fieldPart_NoCRLF(b, e) ==
    <<"--", b, CRLF, fieldDisposition(e.key), CRLF, CRLF>> \o e.value

\* `--${boundary}\r\n` + `Content-Disposition: form-data; name="${key}"\r\n\r\n` +
\* `${value}\r\n`
fieldPart(b, e) ==
    <<"--", b, CRLF, fieldDisposition(e.key), CRLF, CRLF>> \o e.value \o <<CRLF>>

\* Mutant: the fields are emitted last entry first.
formEntries_Reversed(f) == [i \in DOMAIN f |-> f[Len(f) + 1 - i]]

\* Object.entries(policy.form)
formEntries(f) == f

\* lib/github.ts 413-455, part_000 168-210: the body built by hand.
manualBody(b, f, name, contentType, bytes) ==
    Flatten([i \in DOMAIN formEntries(f) |-> fieldPart(b, formEntries(f)[i])])
    \o <<"--", b, CRLF, fileDisposition(name), CRLF, typeHeader(contentType), CRLF, CRLF>>
    \o bytes
    \o <<CRLF, "--", b, "--", CRLF>>

\* const payload_data = { ...policy.form, file: file }: the string fields, and the
\* file under the key "file" (which replaces a form field of that name).
payload_data(f, fl) ==
    [fields |-> SelectSeq(formEntries(f), LAMBDA e : e.key # "file"), file |-> fl]

\* payloadGenerator(payload_data), which the repository's payload-gen module
\* defines: the multipart builder, with the boundary "----" + boundary_string.
payloadGenerator(pd, boundary_string) ==
    LET b == "----" \o boundary_string
    IN  Flatten([i \in DOMAIN pd.fields |-> fieldPart(b, pd.fields[i])])
        \o <<"--", b, CRLF, fileDisposition(pd.file.name), CRLF,
             typeHeader(pd.file.type), CRLF, CRLF>>
        \o pd.file.bytes
        \o <<CRLF, "--", b, "--", CRLF>>

\* The boundary the Content-Type header of the multipart POST declares.
boundaryOf(rnd) ==
    IF copy \in {"github_ts_b", "part_000"}
    THEN "----WebKitFormBoundary" \o rnd
    ELSE "----" \o ("WebKitFormBoundary" \o rnd)

\* The body of the multipart POST.
requestBody(rnd) ==
    IF copy \in {"github_ts_b", "part_000"}
    THEN manualBody(boundaryOf(rnd), form, file.name, formData.content_type, file.bytes)
    ELSE payloadGenerator(payload_data(form, file), "WebKitFormBoundary" \o rnd)

\* upload, lines 134-136, and getPolicy, lines 66-70: the content type and the form
\* of the policy request.
buildPolicyForm ==
    /\ at = "args"
    /\ formData' = policyFormData(repoId[0], file.name, Len(file.bytes),
                                  contentTypeOf(file.name))
    /\ at' = "policy"
    /\ UNCHANGED <<file, form, boundary, body>>
    /\ UNCHANGED <<copy, plugin, settings, repo, repoMeta, repoId, origin, pc, policy, reqs,
                   resps, awsLink, result, note, cursor, vault, trashed>>
    /\ UNCHANGED <<notices, console, hpc, logVars>>

\* upload, after the policy has arrived: the multipart body, with a fresh random
\* boundary.
buildBody(rnd) ==
    /\ at = "policy"
    /\ rnd \in Randoms
    /\ boundary' = boundaryOf(rnd)
    /\ body' = requestBody(rnd)
    /\ at' = "body"
    /\ UNCHANGED <<file, form, formData>>
    /\ UNCHANGED <<copy, plugin, settings, repo, repoMeta, repoId, origin, pc, policy, reqs,
                   resps, awsLink, result, note, cursor, vault, trashed>>
    /\ UNCHANGED <<notices, console, hpc, logVars>>

----------------------------------------------------------------------------
(* The specification *)

\* Lines of the note.
NLines == 2

\* const DEFAULT_SETTINGS
DEFAULT_SETTINGS == [githubSession |-> "", deleteLocalImage |-> FALSE,
                     showNotices |-> TRUE, enableLogging |-> FALSE]

\* The client and the plugin before any call.
UploadInit ==
    /\ copy \in ClientCopies
    /\ plugin \in PluginModes
    /\ settings \in [githubSession : {"", "session"}, deleteLocalImage : BOOLEAN,
                     showNotices : BOOLEAN, enableLogging : BOOLEAN]
    \* main.ts has the session setting only: nothing is trashed or logged, and its
    \* notices do not go through showNotice
    /\ plugin = "main_ts" => (~settings.deleteLocalImage /\ ~settings.enableLogging
                              /\ settings.showNotices)
    /\ plugin = "none" => settings = DEFAULT_SETTINGS
    /\ repo \in {"cli/cli", "owner/repo"}
    /\ plugin # "none" => repo = "cli/cli"
    /\ repoMeta \in (IF repo = "cli/cli" THEN {CLI_REPO_ID} ELSE {OTHER_REPO_ID, UNDEFINED})
    /\ repoId = [k \in 0..NCalls |-> IF k = 0 THEN constructorRepoId(repo) ELSE NULL]
    /\ origin = [c \in Calls |-> "none"]
    /\ pc = [c \in Calls |-> "idle"]
    /\ policy = [c \in Calls |-> NULL]
    /\ reqs = [c \in Calls |-> <<>>]
    /\ resps = [c \in Calls |-> <<>>]
    /\ awsLink = [c \in Calls |-> NULL]
    /\ result = [c \in Calls |-> NoResult]
    /\ note = [l \in 1..NLines |-> {}]
    /\ cursor = 1
    /\ vault = {}
    /\ trashed = {}
    /\ notices = {}
    /\ console = {}
    /\ hpc = [c \in Calls |-> "none"]
    \* the log note may already exist (when logging is off it is never looked at)
    /\ logFile \in {[exists |-> e, entries |-> {}] : e \in {FALSE, settings.enableLogging}}
    /\ logLocal = [c \in Calls |-> {}]

NoFile == [name |-> <<>>, type |-> "", bytes |-> <<>>]

\* No request is being built: the requests of the calls are followed by their kind,
\* policy and repository id only.
PayloadOff ==
    /\ file = NoFile
    /\ form = <<>>
    /\ at = "off"
    /\ formData = NoFormData
    /\ boundary = ""
    /\ body = <<>>

Init == UploadInit /\ PayloadOff

\* The client alone: callers that share one client object call upload directly.
Next ==
    \/ \E c \in Calls : upload(c)
    \/ \E c \in Calls : \E r \in RepoResponses : getRepoId(c, r)
    \/ \E c \in Calls : \E r \in PolicyResponses(c) : getPolicy(c, r)
    \/ \E c \in Calls : \E r \in UploadResponses(c) : uploadPost(c, r)
    \/ \E c \in Calls : \E r \in CompleteResponses : markUploadComplete(c, r)

\* A client constructed and called directly.
ClientInit == Init /\ plugin = "none"

Spec == ClientInit /\ [][Next]_vars

\* The plugin: every call is made by an event handler, on a client of its own.
PluginNext ==
    \/ \E S \in SUBSET Calls : \E I \in SUBSET S : editorDrop(S, I)
    \/ \E c \in Calls : editorPaste(c)
    \/ \E c \in Calls : \E img \in BOOLEAN, pasted \in BOOLEAN : vaultCreate(c, img, pasted)
    \/ \E c \in Calls : \E r \in PolicyResponses(c) : getPolicy(c, r)
    \/ \E c \in Calls : \E r \in UploadResponses(c) : uploadPost(c, r)
    \/ \E c \in Calls : \E r \in CompleteResponses : markUploadComplete(c, r)
    \/ \E l \in 1..NLines : MoveCursor(l)

\* The plugin loaded, with its settings; logging is off, as by default.
PluginInit == Init /\ plugin # "none" /\ ~settings.enableLogging

PluginSpec == PluginInit /\ [][PluginNext]_vars

\* The plugin of part_002 with logging on and a session set, with the client of
\* part_001.
LogNext ==
    \/ \E S \in SUBSET Calls : \E I \in SUBSET S : editorDrop(S, I)
    \/ \E c \in Calls : \E img \in BOOLEAN, pasted \in BOOLEAN : vaultCreate(c, img, pasted)
    \/ \E c \in Calls : \E r \in PolicyResponses(c) : getPolicy(c, r)
    \/ \E c \in Calls : \E r \in UploadResponses(c) : uploadPost(c, r)
    \/ \E c \in Calls : \E r \in CompleteResponses : markUploadComplete(c, r)
    \/ \E l \in 1..NLines : MoveCursor(l)
    \/ \E c \in Calls : logCreate(c)
    \/ \E c \in Calls : logRead(c)
    \/ \E c \in Calls : logModify(c)

LogInit ==
    /\ Init
    /\ plugin = "part_002"
    /\ copy = "part_001"
    /\ settings.enableLogging
    /\ settings.githubSession # ""

LogSpec == LogInit /\ [][LogNext]_vars

\* Form fields of a policy (at most).
MaxFields == 2

\* The names of form fields, as the storage service's signed forms have them.
Keys == {"key", "acl", "policy"}

\* Field values: empty, plain, with a zero byte, with dashes, with another upload's
\* boundary, with this upload's delimiter line.
Values == {<<>>, <<"x">>, <<"0", "x">>, <<"--", "x">>,
           <<"--", "----WebKitFormBoundaryz9">>,
           <<"x", CRLF, "--", "----WebKitFormBoundaryk3", CRLF>>}

\* File contents: empty, with zero bytes, ending in a line break, with the dashes
\* and the fixed part of the boundary, with a delimiter line.
FileContents == {<<>>, <<"x", "0", "x">>, <<"0", CRLF>>, <<"x", CRLF, "--">>,
                 <<"x", CRLF, "--", "----WebKitFormBoundary", "x">>,
                 <<"--", "----WebKitFormBoundaryk3">>,
                 <<"x", CRLF, "--", "----WebKitFormBoundaryk3", "--", CRLF>>}

\* File names: the text between the dots, and the dots.
Names == {<<"a">>, <<"a", ".", "png">>, <<"a", ".", "PNG">>, <<"a", ".", "jpg">>,
          <<"a", ".", "zz">>, <<"a", ".">>, <<".", "png">>,
          <<"a", ".", "png", ".", "zz">>, <<"a", ".", "zz", ".", "png">>}

\* The policies' forms: up to MaxFields fields with distinct names, in any order.
Forms ==
    UNION {{f \in [1..n -> [key : Keys, value : Values]] :
               \A i \in 1..n, j \in 1..n : i # j => f[i].key # f[j].key}
           : n \in 0..MaxFields}

\* One upload call, its arguments and the policy form it will be given.
PayloadInit ==
    /\ UploadInit
    /\ plugin = "none"
    /\ repo = "cli/cli"
    /\ file \in [name : Names, type : {"image/png"}, bytes : FileContents]
    /\ form \in Forms
    /\ at = "args"
    /\ formData = NoFormData
    /\ boundary = ""
    /\ body = <<>>

PayloadNext ==
    \/ buildPolicyForm
    \/ \E rnd \in Randoms : buildBody(rnd)

PayloadSpec == PayloadInit /\ [][PayloadNext]_vars

----------------------------------------------------------------------------
(* Reading a call's request log *)

Range(f) == {f[i] : i \in DOMAIN f}

\* The kinds of the requests call c has issued, in order.
Kinds(c) == [i \in DOMAIN reqs[c] |-> reqs[c][i].kind]

IsPrefix(p, q) == Len(p) <= Len(q) /\ \A i \in DOMAIN p : p[i] = q[i]

\* Call c has received the answer to its request of the given kind.
Answered(c, kind) ==
    \E i \in DOMAIN resps[c] : reqs[c][i].kind = kind

\* The answer call c received to its (first) request of the given kind.
Answer(c, kind) ==
    resps[c][CHOOSE i \in DOMAIN resps[c] :
                 /\ reqs[c][i].kind = kind
                 /\ \A j \in 1..(i - 1) : reqs[c][j].kind # kind]

\* Call c has issued a request of the given kind.
Issued(c, kind) == \E i \in DOMAIN reqs[c] : reqs[c][i].kind = kind

\* An HTTP response with a success status.
Http2xx(r) == r.status >= 200 /\ r.status < 300

----------------------------------------------------------------------------
(* C1 *)

\* C1: in every upload call the requests are issued in the fixed order repository
\* GET (only as the first request, and the policy POST that opens a call without it
\* carries the cached id), policy POST, multipart POST, completion PUT; a request is
\* issued only when every earlier request of the call has been answered with a
\* success status (in part_001 and github.ts 1-246, the copies that check the status:
\* 201 for the policy, 201 or 204 for the multipart POST), so nothing is issued after
\* a step of the call failed.
C1_FixedOrder ==
    \A c \in Calls :
        /\ \/ IsPrefix(Kinds(c), <<"repo", "policy", "upload", "complete">>)
           \/ IsPrefix(Kinds(c), <<"policy", "upload", "complete">>)
        /\ Len(resps[c]) \in {Len(reqs[c]) - 1, Len(reqs[c])}
        /\ \A i \in 1..(Len(reqs[c]) - 1) :
              /\ Http2xx(resps[c][i])
              /\ copy \in {"part_001", "github_ts_a"} =>
                     /\ reqs[c][i].kind = "policy" => resps[c][i].status = 201
                     /\ reqs[c][i].kind = "upload" => resps[c][i].status \in {201, 204}
        /\ (reqs[c] # <<>> /\ reqs[c][1].kind = "policy")
               => Truthy(reqs[c][1].repository_id)
        /\ pc[c] = "threw" => Len(resps[c]) = Len(reqs[c])

\* A call that resolved the repository id and went through all four requests.
C1_Witness ==
    \E c \in Calls :
        /\ Kinds(c) = <<"repo", "policy", "upload", "complete">>
        /\ pc[c] = "returned"

----------------------------------------------------------------------------
(* C2 *)

PolicyRejected(c) ==
    /\ Answered(c, "policy")
    /\ Answer(c, "policy").status \notin {0, 201}

\* C2: a policy request answered with a status other than 201 makes upload fail
\* with the session-expired error, and neither the multipart POST nor the completion
\* PUT is issued.
C2_SessionExpired ==
    \A c \in Calls :
        PolicyRejected(c) =>
            /\ pc[c] = "threw"
            /\ "Your Github session is expired. Add again" \in Range(result[c].msgs)
            /\ ~Issued(c, "upload")
            /\ ~Issued(c, "complete")

----------------------------------------------------------------------------
(* C3 *)

\* C3: a multipart POST answered with a status outside {201, 204} makes upload fail
\* with the upload-failed error carrying that status; 201 and 204 do not fail at this
\* step (the completion PUT is issued).
C3_UploadFailed ==
    \A c \in Calls :
        (Answered(c, "upload") /\ Answer(c, "upload").status # 0) =>
            IF Answer(c, "upload").status \in {201, 204}
            THEN Issued(c, "complete")
            ELSE /\ pc[c] = "threw"
                 /\ result[c].msgs[1] = "Failed to upload file"
                 /\ result[c].status = Answer(c, "upload").status

----------------------------------------------------------------------------
(* C4 *)

\* Every step of call c succeeded, by the contract of each endpoint.
AllStepsSucceeded(c) ==
    /\ Issued(c, "repo") => (Answered(c, "repo") /\ Answer(c, "repo").status = 200
                             /\ Truthy(Answer(c, "repo").data))
    /\ Answered(c, "policy") /\ Answer(c, "policy").status = 201
    /\ Answered(c, "upload") /\ Answer(c, "upload").status \in {201, 204}
    /\ Answered(c, "complete") /\ Http2xx(Answer(c, "complete"))

\* The pair made of the asset.href of the policy this call was given and of the
\* Location header this call's multipart POST was answered with ("" when absent).
OwnLinks(c) == Links(Href(Answer(c, "policy").data),
                     IF Answer(c, "upload").data = UNDEFINED THEN EMPTY
                     ELSE Answer(c, "upload").data)

\* C4: when every step succeeds upload returns, and whenever it returns it returns
\* exactly {githubLink: asset.href of the policy obtained in this call, awsLink: the
\* Location header of this call's multipart POST response}.
C4_ReturnsOwnLinks ==
    \A c \in Calls :
        /\ AllStepsSucceeded(c) => pc[c] = "returned"
        /\ pc[c] = "returned" => result[c] = OwnLinks(c)

\* Two calls have both returned after every step succeeded, each with a Location.
C4_Witness ==
    \A c \in Calls :
        /\ AllStepsSucceeded(c)
        /\ pc[c] = "returned"
        /\ result[c].awsLink # EMPTY
        /\ result[c].githubLink = Href(PolicyIssued(c, 1))

----------------------------------------------------------------------------
(* C5 *)

\* The note holds a GitHub link for the file of call c.
HasRemote(c) ==
    \E l \in DOMAIN note : \E tok \in note[l] : tok.t = "remote" /\ tok.f = c

\* C5: when the upload of a file fails, the local file is not trashed and the note
\* is not rewritten for it, whatever deleteLocalImage is and whichever handler made
\* the call.
C5_FailureLeavesFileAndNote ==
    \A c \in Calls :
        pc[c] = "threw" => (c \notin trashed /\ ~HasRemote(c))

----------------------------------------------------------------------------
(* C6 *)

\* C6: the multipart POST and the completion PUT of a call use the policy that this
\* call's own policy request was answered with, and no policy is used by two calls.
C6_FreshPolicy ==
    \A c \in Calls :
        /\ \A i \in DOMAIN reqs[c] :
              reqs[c][i].kind \in {"upload", "complete"} =>
                  /\ Answered(c, "policy")
                  /\ reqs[c][i].policy = Answer(c, "policy").data
        /\ \A d \in Calls \ {c} :
              \A i \in DOMAIN reqs[c], j \in DOMAIN reqs[d] :
                  reqs[c][i].policy # NULL => reqs[c][i].policy # reqs[d][j].policy

\* Two calls have each sent a completion PUT.
C6_Witness ==
    \E c \in Calls, d \in Calls :
        c # d /\ Issued(c, "complete") /\ Issued(d, "complete")

----------------------------------------------------------------------------
(* C7 *)

\* What upload does with the answers call c received, were it the only call: the
\* outcome decided by the answer to its last request.
AloneOutcome(c) ==
    LET n == Len(resps[c])
        k == reqs[c][n].kind
        r == resps[c][n]
    IN  CASE k = "repo" ->
                IF getRepoIdThrows(r)
                THEN Err(<<"Failed to get repo ID", httpErrorText(r)>>, r.status)
                ELSE Err(<<"TypeError: Cannot read properties of undefined">>, 0)
          [] k = "policy" ->
                IF getPolicyThrows(r)
                THEN Err(<<"Failed to get upload policy", httpErrorText(r)>>, r.status)
                ELSE IF copy = "part_001"
                THEN Err(<<"Failed to get upload policy",
                           "Your Github session is expired. Add again">>, 0)
                ELSE Err(<<"Failed to get upload policy",
                           "Failed to get upload policy", "response.text">>, 0)
          [] k = "upload" ->
                IF uploadPostThrows(r)
                THEN Err(<<"Failed to upload file", httpErrorText(r)>>, r.status)
                ELSE Err(<<"Failed to upload file", "Upload failed with status">>, r.status)
          [] k = "complete" ->
                IF markUploadCompleteThrows(r)
                THEN Err(<<"Failed to upload file", "Failed to mark upload as complete",
                           httpErrorText(r)>>, r.status)
                ELSE OwnLinks(c)

\* The outcome of every finished call is the one its own answers decide, and every
\* policy request carries the id of the client's repository.
C7_OutcomeAsAlone ==
    \A c \in Calls :
        /\ pc[c] \in {"returned", "threw"} => result[c] = AloneOutcome(c)
        /\ \A i \in DOMAIN reqs[c] :
              reqs[c][i].kind = "policy" => reqs[c][i].repository_id = repoMeta

\* A step changes the locals of one call only.
C7_OneCallPerStep ==
    \A c \in Calls, d \in Calls :
        (c # d /\ <<origin[c], resps[c]>> # <<origin'[c], resps'[c]>>) =>
            <<origin[d], pc[d], policy[d], reqs[d], resps[d], awsLink[d], result[d]>>
          = <<origin'[d], pc'[d], policy'[d], reqs'[d], resps'[d], awsLink'[d], result'[d]>>

\* Every write to the cached id stores the id of the client's repository.
C7_SameValueWritten ==
    \A k \in 0..NCalls : repoId'[k] # repoId[k] => repoId'[k] = repoMeta

\* C7: for every interleaving of upload calls on one shared client, a step of one
\* call changes no other call's state (the cached repository id is all they share),
\* every write to the cached id stores the same value, and each call ends as its own
\* answers decide, as if it had run alone.
C7_ConcurrentCallsIndependent ==
    /\ []C7_OutcomeAsAlone
    /\ [][C7_OneCallPerStep]_vars
    /\ [][C7_SameValueWritten]_vars

\* Two calls raced on the repository id (each sent its own GET) and both returned.
C7_Witness ==
    /\ plugin = "none"
    /\ \A c \in Calls : Issued(c, "repo") /\ pc[c] = "returned"

----------------------------------------------------------------------------
(* C8 *)

\* In this step no call on client k sends the metadata GET, and a policy request
\* sent on client k carries the id the client holds.
NoResolutionRequest(k) ==
    \A c \in Calls :
        (IF origin'[c] = "api" THEN 0 ELSE c) = k =>
            \A i \in (Len(reqs[c]) + 1)..Len(reqs'[c]) :
                /\ reqs'[c][i].kind # "repo"
                /\ reqs'[c][i].kind = "policy" => reqs'[c][i].repository_id = repoId[k]

\* C8: once a client holds the repository id (resolved, or pre-set for cli/cli), the
\* id it holds never changes, every later resolution yields that value, and no
\* request is sent to the metadata endpoint.
C8_ResolutionIdempotent ==
    [][\A k \in 0..NCalls :
          Truthy(repoId[k]) => (repoId'[k] = repoId[k] /\ NoResolutionRequest(k))]_vars

\* One call resolved the id with a GET; a later call on the same client went
\* straight to its policy request with that id.
C8_Witness ==
    \E c \in Calls, d \in Calls :
        /\ c # d /\ origin[c] = "api" /\ origin[d] = "api"
        /\ Answered(c, "repo") /\ Truthy(repoId[0])
        /\ reqs[d] # <<>> /\ reqs[d][1].kind = "policy"
        /\ reqs[d][1].repository_id = repoId[0]

----------------------------------------------------------------------------
(* C9 *)

\* The metadata endpoint answered call c with an error, or with no id.
RepoNotResolved(c) ==
    /\ Answered(c, "repo")
    /\ Answer(c, "repo").status # 200 \/ ~Truthy(Answer(c, "repo").data)

\* Some other call on the same client had its metadata GET answered with the id.
ResolvedByAnother(c) ==
    \E d \in Calls \ {c} :
        /\ gh(d) = gh(c) /\ Answered(d, "repo")
        /\ Answer(d, "repo").status = 200 /\ Truthy(Answer(d, "repo").data)

\* C9: when the metadata endpoint errors or its response carries no id, the call
\* fails with 'Failed to get repo ID', sends no policy request and leaves no value
\* in the cached repository id.
C9_RepoResolutionError ==
    \A c \in Calls :
        RepoNotResolved(c) =>
            /\ pc[c] = "threw"
            /\ result[c].msgs[1] = "Failed to get repo ID"
            /\ ~Issued(c, "policy")
            /\ ResolvedByAnother(c) \/ ~Truthy(repoId[gh(c)])

----------------------------------------------------------------------------
(* C10 *)

\* C10: a completion PUT that fails, by a transport error or by a non-success
\* status, ends the upload call with 'Failed to mark upload as complete'.
C10_CompletionFailureReported ==
    \A c \in Calls :
        (Answered(c, "complete") /\ ~Http2xx(Answer(c, "complete"))) =>
            /\ pc[c] = "threw"
            /\ "Failed to mark upload as complete" \in Range(result[c].msgs)

----------------------------------------------------------------------------
(* C11 *)

RequestKinds == {"repo", "policy", "upload", "complete"}

\* C11: no step is retried: whatever the responses are, an upload call issues at
\* most one repository GET, one policy POST, one multipart POST and one completion
\* PUT.
C11_NoRetry ==
    \A c \in Calls : \A kind \in RequestKinds : NumReqs(c, kind) <= 1

\* One call was refused at the multipart POST and ended there; another failed at
\* the transport of its policy request.
C11_Witness ==
    \E c \in Calls, d \in Calls :
        /\ pc[c] = "threw" /\ Answered(c, "upload") /\ Answer(c, "upload").status = 403
        /\ pc[d] = "threw" /\ Answered(d, "policy") /\ Answer(d, "policy").status = 0
        /\ ~Issued(d, "upload")

----------------------------------------------------------------------------
(* C12 *)

RECURSIVE FieldPartsInOrder(_, _)
\* One part per entry of the form, first entry first.
FieldPartsInOrder(b, f) ==
    IF f = <<>> THEN <<>>
    ELSE <<"--", b, CRLF, fieldDisposition(Head(f).key), CRLF, CRLF>>
         \o Head(f).value \o <<CRLF>> \o FieldPartsInOrder(b, Tail(f))

\* The part named "file": the file name, a content type, the raw bytes, CRLF.
FilePart(b, type) ==
    <<"--", b, CRLF, fileDisposition(file.name), CRLF, typeHeader(type), CRLF, CRLF>>
    \o file.bytes \o <<CRLF>>

\* C12: the multipart body is, in this order, one part per entry of the policy's
\* form in the form's order, then the one part named "file" (file name, content
\* type, raw bytes, CRLF), then the closing delimiter --boundary-- CRLF, and nothing
\* else.
C12_BodyLayout ==
    at = "body" =>
        \E type \in {formData.content_type, file.type} :
            body = FieldPartsInOrder(boundary, form) \o FilePart(boundary, type)
                   \o <<"--", boundary, "--", CRLF>>

\* A body was built from a form of two fields, one of them empty, and a file with
\* content.
C12_Witness ==
    /\ at = "body"
    /\ Len(form) = 2 /\ form[1].value = <<>> /\ form[2].value # <<>>
    /\ file.bytes # <<>>
    /\ Len(body) > 20

----------------------------------------------------------------------------
(* C13 *)

\* The reference parser (RFC 2046): the body opens with the delimiter --boundary;
\* after a delimiter comes either -- (the end) or CRLF, header lines up to an empty
\* line, and the content up to the next CRLF --boundary.
Malformed == [ok |-> FALSE, parts |-> <<>>]

RECURSIVE ReadHeaders(_, _, _)
ReadHeaders(s, q, hs) ==
    IF q > Len(s) THEN [ok |-> FALSE, headers |-> hs, next |-> q]
    ELSE IF s[q] = CRLF THEN [ok |-> TRUE, headers |-> hs, next |-> q + 1]
    ELSE IF q + 1 <= Len(s) /\ s[q + 1] = CRLF THEN ReadHeaders(s, q + 2, Append(hs, s[q]))
    ELSE [ok |-> FALSE, headers |-> hs, next |-> q]

DelimitersFrom(s, b, from) ==
    {i \in from..(Len(s) - 2) : s[i] = CRLF /\ s[i + 1] = "--" /\ s[i + 2] = b}

RECURSIVE ParseParts(_, _, _, _)
ParseParts(s, b, p, acc) ==
    IF p + 1 <= Len(s) /\ s[p] = "--" /\ s[p + 1] = CRLF
    THEN [ok |-> p + 1 = Len(s), parts |-> acc]
    ELSE IF p <= Len(s) /\ s[p] = CRLF
    THEN LET h == ReadHeaders(s, p + 1, <<>>)
             ds == DelimitersFrom(s, b, h.next)
             d == CHOOSE i \in ds : \A j \in ds : i <= j
         IN  IF ~h.ok \/ ds = {} THEN Malformed
             ELSE ParseParts(s, b, d + 3,
                             Append(acc, [headers |-> h.headers,
                                          content |-> SubSeq(s, h.next, d - 1)]))
    ELSE Malformed

ParseMultipart(s, b) ==
    IF Len(s) >= 2 /\ s[1] = "--" /\ s[2] = b THEN ParseParts(s, b, 3, <<>>)
    ELSE Malformed

\* The parser returns the form's fields, names and values, and the file's bytes.
ParsesBack ==
    LET r == ParseMultipart(body, boundary)
    IN  /\ r.ok
        /\ Len(r.parts) = Len(form) + 1
        /\ \A i \in DOMAIN form :
              r.parts[i] = [headers |-> <<fieldDisposition(form[i].key)>>,
                            content |-> form[i].value]
        /\ r.parts[Len(form) + 1].headers[1] = fileDisposition(file.name)
        /\ r.parts[Len(form) + 1].content = file.bytes

\* C13: for every form and every file content, the reference parser, given the
\* generated boundary, returns from the built body exactly the original field names
\* and values and the original file bytes: also for empty values, zero bytes, and
\* values or content that contain the delimiter or a prefix of it.
C13_RoundTrip == at = "body" => ParsesBack

\* A field value or the file content contains the delimiter line.
ContainsDelimiter ==
    \/ DelimitersFrom(file.bytes, boundary, 1) # {}
    \/ \E i \in DOMAIN form : DelimitersFrom(form[i].value, boundary, 1) # {}

----------------------------------------------------------------------------
(* C14 *)

\* The extension of a file name: the text after its last dot, when there is a dot
\* that is not the first character.
ExtensionOf(name) ==
    LET dots == {i \in 2..Len(name) : name[i] = "."}
    IN  IF dots = {} THEN ""
        ELSE Join(SubSeq(name, (CHOOSE i \in dots : \A j \in dots : j <= i) + 1, Len(name)))

\* The MIME type of an extension, in either case; "" for an extension not listed.
TypeOfExtension(e) ==
    CASE e \in {"png", "PNG"} -> "image/png"
      [] e = "jpg"            -> "image/jpeg"
      [] OTHER                -> ""

\* C14: the content_type field of the policy request is the MIME type of the file
\* name's extension (image/png for .png), and application/octet-stream when the
\* name has no extension or one that is not listed.
C14_ContentType ==
    at \in {"policy", "body"} =>
        /\ formData.name = Join(file.name)
        /\ formData.content_type =
              IF TypeOfExtension(ExtensionOf(file.name)) = ""
              THEN "application/octet-stream"
              ELSE TypeOfExtension(ExtensionOf(file.name))

\* The policy form of a file whose name has two dots and ends in .png.
C14_Witness ==
    /\ at = "policy"
    /\ file.name = <<"a", ".", "zz", ".", "png">>
    /\ formData.content_type = "image/png"

----------------------------------------------------------------------------
(* C15 *)

\* The note holds the local reference ![[name]] of the file of call c.
LocalAnywhere(c) == \E l \in DOMAIN note : Local(c) \in note[l]

\* C15: when the upload of an image succeeds while the note holds its local
\* reference ![[name]], the handler replaces that reference by ![name](githubLink):
\* after the step the note holds the GitHub link and no local reference of the
\* image, wherever the cursor is.
C15_LocalReferenceReplaced ==
    [][\A c \in Calls :
          (pc[c] # "returned" /\ pc'[c] = "returned" /\ LocalAnywhere(c))
              => (HasRemote(c)' /\ ~LocalAnywhere(c)')]_vars

----------------------------------------------------------------------------
(* C16 *)

\* C16: a file is trashed only with deleteLocalImage enabled, only when it was
\* created in the vault, and only once its upload call has returned the links; with
\* deleteLocalImage enabled a created image whose handler has finished after a
\* successful upload is in the trash.
C16_TrashedAfterUpload ==
    \A c \in Calls :
        /\ c \in trashed =>
              (settings.deleteLocalImage /\ origin[c] = "create" /\ pc[c] = "returned")
        /\ (settings.deleteLocalImage /\ origin[c] = "create"
            /\ pc[c] = "returned" /\ hpc[c] = "done") => c \in trashed

----------------------------------------------------------------------------
(* C17 *)

\* C17: with logging enabled, the log note holds the entry of every image whose
\* upload succeeded and whose handler has finished, also when several handlers run
\* at once, and the logging step makes no handler of a successful upload end in
\* its error branch.
C17_EveryUploadLogged ==
    \A c \in Calls :
        pc[c] = "returned" =>
            /\ hpc[c] # "caught"
            /\ hpc[c] = "done" => logEntry(c) \in logFile.entries

----------------------------------------------------------------------------
(* C18 *)

\* The notices that report a failure.
FailureNotices(c) ==
    {n \in notices : /\ n.call = c
                     /\ n.text \in {"Please check the console for details.",
                                    "Your Github session is expired. Add again"}}

\* C18: (notices being enabled) every failed upload is shown to the user as exactly
\* one notice: not none, not two.
C18_OneNoticePerFailure ==
    settings.showNotices =>
        \A c \in Calls : pc[c] = "threw" => Cardinality(FailureNotices(c)) = 1

----------------------------------------------------------------------------
(* C19 *)

\* C19: while showNotices is disabled no notice is displayed, whatever happens: a
\* rejected policy request, a failed upload, a missing session, a rewrite of the
\* note, a trashed file.
C19_NoNoticeWhenDisabled == ~settings.showNotices => notices = {}

----------------------------------------------------------------------------
(* C20 *)

\* C20: nothing written to the console holds the session credential: no logged
\* value is, or contains, a request that carries the session cookie.  (The entries
\* of the log note are a file name and a link.)
C20_SessionNeverLogged == \A item \in console : ~item.request.cookie

----------------------------------------------------------------------------
(* C21 *)

\* The image files a drop, paste or create event has handed to handleImagePaste.
Handled == {c \in Calls : origin[c] \in {"drop", "paste", "create"} /\ pc[c] # "skipped"}

\* The notice that asks for the session (the two plugin copies spell it differently).
SessionNotices(c) ==
    {n \in notices : /\ n.call = c
                     /\ n.text \in {"Please Add GitHub Session to use this.",
                                    "Please Add Github Session to use this."}}

\* C21: while the session setting is empty, handling an image shows the notice that
\* asks for the session (notices being enabled) and stops there: no client is made
\* for the file, no request is issued for it, and no link to it is written into
\* the note.
C21_NoSessionStops ==
    settings.githubSession = "" =>
        \A c \in Handled :
            /\ settings.showNotices => SessionNotices(c) # {}
            /\ pc[c] = "nosession"
            /\ repoId[c] = NULL
            /\ reqs[c] = <<>>
            /\ \A l \in DOMAIN note : \A t \in note[l] : ~(t.t = "remote" /\ t.f = c)

----------------------------------------------------------------------------
(* C22 *)

\* The requests that go to the platform's web origin, https://github.com: the
\* policy POST and the completion PUT.  The metadata GET goes to api.github.com,
\* the multipart POST to policy.upload_url.
WebOriginKinds == {"policy", "complete"}

\* C22: the session cookie is sent only to the platform's web origin: every request
\* that carries it is a policy POST or a completion PUT, never the metadata GET
\* and never the multipart POST.
C22_CookieOnlyToWebOrigin ==
    \A c \in Calls : \A i \in DOMAIN reqs[c] :
        reqs[c][i].cookie => reqs[c][i].kind \in WebOriginKinds

====
